---- MODULE Spec2Model ----
(***************************************************************************)
(* Stabiliser decomposition driver of quizx (src/quizx/src/decompose.rs).  *)
(*                                                                         *)
(* A Decomposer owns a deque of (depth, graph) pairs (`stack`), a list of  *)
(* finished graphs (`done`), an exact scalar accumulator, a term counter   *)
(* and three configuration flags.  Vertices are numbered from 1 here (the  *)
(* Rust code numbers them from 0); phases are kept as the numerator k of   *)
(* k/4 modulo 2, i.e. k \in 0..7, so a phase has denominator 4 iff k is    *)
(* odd.                                                                    *)
(***************************************************************************)
EXTENDS Integers, Sequences, FiniteSets, Bags, TLC

(***************************************************************************)
(* Bounds of the model.                                                    *)
(***************************************************************************)
MaxT == 12          \* largest T-count of a seed
MaxAllT == 8        \* largest T-count of a seed in the runs of decomp_all
MaxAllRandT == 3    \* the same, with random selection
MaxRandT == 4       \* largest T-count of a seed reduced with random selection
MaxParT == 5        \* largest T-count of a seed reduced by decomp_parallel
MaxSplitT == 3      \* largest T-count of a seed in the split / merge runs
MaxPhaseT == 6      \* the same, where no tensor is computed
MaxMixedT == 2      \* largest T-count of a seed whose vertices have different phases
MaxMergeLen == 4    \* longest list of Decomposers merged in every order
MaxApiT == 5        \* largest T-count of a seed in the runs that mix all calls
MaxApiDepth == 3    \* largest depth argument of decomp_until_depth in those runs
MaxDepth == 2       \* largest depth argument of decomp_until_depth
MaxHookDrop == 1    \* most T-vertices the simplification hook removes per call

(***************************************************************************)
(* Exact scalars: ScalarN::Exact(pow, [c0,c1,c2,c3]) stands for            *)
(* 2^pow * (c0 + c1*w + c2*w^2 + c3*w^3) with w = exp(i*pi/4), w^4 = -1.   *)
(* A scalar is the tuple <<pow, c0, c1, c2, c3>>, kept reduced: zero is    *)
(* <<0,0,0,0,0>>, otherwise not all coefficients are even.                 *)
(***************************************************************************)
Exact(p, c) == <<p, c[1], c[2], c[3], c[4]>>

AllEven(s) == \A i \in 2..5 : s[i] % 2 = 0

RECURSIVE ScalarReduce(_)
ScalarReduce(s) ==
    IF \A i \in 2..5 : s[i] = 0 THEN <<0, 0, 0, 0, 0>>
    ELSE IF AllEven(s)
         THEN ScalarReduce(<<s[1] + 1, s[2] \div 2, s[3] \div 2, s[4] \div 2, s[5] \div 2>>)
         ELSE s

ScalarZero == <<0, 0, 0, 0, 0>>
ScalarOne == <<0, 1, 0, 0, 0>>

RECURSIVE Pow2(_)
Pow2(n) == IF n = 0 THEN 1 ELSE 2 * Pow2(n - 1)

ScalarAdd(a, b) ==
    IF a = ScalarZero THEN b
    ELSE IF b = ScalarZero THEN a
    ELSE LET p == IF a[1] < b[1] THEN a[1] ELSE b[1]
             fa == Pow2(a[1] - p)
             fb == Pow2(b[1] - p)
         IN  ScalarReduce(<<p, fa * a[2] + fb * b[2], fa * a[3] + fb * b[3],
                               fa * a[4] + fb * b[4], fa * a[5] + fb * b[5]>>)

ScalarMul(a, b) ==
    ScalarReduce(<<a[1] + b[1],
        a[2] * b[2] - a[3] * b[5] - a[4] * b[4] - a[5] * b[3],
        a[2] * b[3] + a[3] * b[2] - a[4] * b[5] - a[5] * b[4],
        a[2] * b[4] + a[3] * b[3] + a[4] * b[2] - a[5] * b[5],
        a[2] * b[5] + a[3] * b[4] + a[4] * b[3] + a[5] * b[2]>>)

\* ScalarN::from_phase(k/4) = w^k
RECURSIVE ScalarFromPhase(_)
ScalarFromPhase(k) ==
    IF k = 0 THEN ScalarOne
    ELSE ScalarMul(<<0, 0, 1, 0, 0>>, ScalarFromPhase(k - 1))

(***************************************************************************)
(* Graphs (the GraphLike collaborator).  A graph is a record               *)
(*   ty : sequence of vertex types "Z" or "B" (boundary), by vertex id     *)
(*   ph : sequence of phases (numerators of k/4, 0..7), by vertex id       *)
(*   ed : set of edges <<u, v, t>> with u < v and t \in {"N", "H"}         *)
(*   sc : the attached scalar                                              *)
(***************************************************************************)
EmptyGraph == [ty |-> <<>>, ph |-> <<>>, ed |-> {}, sc |-> ScalarOne]

num_vertices(g) == Len(g.ph)

vertices(g) == 1..Len(g.ph)

phase(g, v) == g.ph[v]

\* *g.phase(v).denom() == 4
IsT(g, v) == g.ph[v] % 2 = 1

tcount(g) == Cardinality({v \in vertices(g) : IsT(g, v)})

\* add_vertex_with_phase returns the new vertex, which is num_vertices(g) + 1
add_vertex_with_phase(g, t, k) ==
    [g EXCEPT !.ty = Append(@, t), !.ph = Append(@, (k + 8) % 8)]

add_vertex(g, t) == add_vertex_with_phase(g, t, 0)

Edge(u, v, t) == IF u < v THEN <<u, v, t>> ELSE <<v, u, t>>

add_edge_with_type(g, u, v, t) == [g EXCEPT !.ed = @ \cup {Edge(u, v, t)}]

\* add_edge_smart on a pair of vertices that have no edge yet adds the edge
add_edge_smart(g, u, v, t) == add_edge_with_type(g, u, v, t)

add_to_phase(g, v, k) == [g EXCEPT !.ph[v] = (@ + k + 8) % 8]

scalar_mul(g, s) == [g EXCEPT !.sc = ScalarMul(@, s)]

(***************************************************************************)
(* The rewrite identities.  verts is the sequence of selected vertices;    *)
(* verts[i] here is verts[i-1] of the Rust code.                           *)
(***************************************************************************)
\* for &v in verts { g.add_to_phase(v, k/4) }
RECURSIVE AddPhaseAll(_, _, _)
AddPhaseAll(g, verts, k) ==
    IF verts = <<>> THEN g
    ELSE AddPhaseAll(add_to_phase(g, Head(verts), k), Tail(verts), k)

\* for &v in verts { g.add_to_phase(v, k/4); g.add_edge_with_type(v, w, t) }
RECURSIVE AddPhaseEdgeAll(_, _, _, _, _)
AddPhaseEdgeAll(g, verts, w, k, t) ==
    IF verts = <<>> THEN g
    ELSE AddPhaseEdgeAll(
            add_edge_with_type(add_to_phase(g, Head(verts), k), Head(verts), w, t),
            Tail(verts), w, k, t)

replace_b60(g, verts) ==
    AddPhaseAll(scalar_mul(g, Exact(-2, <<-1, 0, 1, 1>>)), SubSeq(verts, 1, 6), -1)

replace_b66(g, verts) ==
    AddPhaseAll(scalar_mul(g, Exact(-2, <<-1, 0, 1, -1>>)), verts, 3)

replace_e6(g, verts) ==
    LET g1 == scalar_mul(g, Exact(1, <<0, -1, 0, 0>>))
        w == num_vertices(g1) + 1
        g2 == add_vertex_with_phase(g1, "Z", 4)
    IN  AddPhaseEdgeAll(g2, verts, w, 1, "H")

replace_o6(g, verts) ==
    LET g1 == scalar_mul(g, Exact(1, <<-1, 0, -1, 0>>))
        w == num_vertices(g1) + 1
        g2 == add_vertex(g1, "Z")
    IN  AddPhaseEdgeAll(g2, verts, w, 1, "H")

\* replace_k6 with the new vertex at phase -1/4 for -1/2
replace_k6_quarter(g, verts) ==
    LET g1 == scalar_mul(g, Exact(1, <<1, 0, 0, 0>>))
        w == num_vertices(g1) + 1
        g2 == add_vertex_with_phase(g1, "Z", -1)
    IN  AddPhaseEdgeAll(g2, verts, w, -1, "N")

replace_k6(g, verts) ==
    LET g1 == scalar_mul(g, Exact(1, <<1, 0, 0, 0>>))
        w == num_vertices(g1) + 1
        g2 == add_vertex_with_phase(g1, "Z", -2)
    IN  AddPhaseEdgeAll(g2, verts, w, -1, "N")

\* the loop `for i in 0..5` of replace_phi1, from iteration i on (i is 1-based);
\* ws[i] is the vertex created in iteration i, which is n0 + i
RECURSIVE Phi1Loop(_, _, _, _)
Phi1Loop(g, verts, n0, i) ==
    IF i > 5 THEN g
    ELSE LET ga == add_vertex(g, "Z")
             w == n0 + i
             gb == add_edge_with_type(ga, verts[i], w, "H")
             gc == add_edge_with_type(gb, w, verts[6], "H")
             gd == add_to_phase(gc, verts[i], -1)
         IN  Phi1Loop(gd, verts, n0, i + 1)

replace_phi1(g, verts) ==
    LET g1 == scalar_mul(g, Exact(3, <<1, 0, 1, 0>>))
        n0 == num_vertices(g1)
        g2 == Phi1Loop(g1, verts, n0, 1)
        g3 == add_to_phase(g2, verts[6], 3)
        g4 == add_edge_with_type(g3, n0 + 1, n0 + 3, "H")
        g5 == add_edge_with_type(g4, n0 + 1, n0 + 4, "H")
        g6 == add_edge_with_type(g5, n0 + 2, n0 + 4, "H")
        g7 == add_edge_with_type(g6, n0 + 2, n0 + 5, "H")
    IN  add_edge_with_type(g7, n0 + 3, n0 + 5, "H")

\* replace_phi2 as a swap of positions 2 and 3 of the Rust list
replace_phi2_swap23(g, verts) ==
    replace_phi1(g, <<verts[1], verts[2], verts[4], verts[3], verts[5], verts[6]>>)

replace_phi2(g, verts) ==
    replace_phi1(g, <<verts[1], verts[2], verts[4], verts[5], verts[6], verts[3]>>)

replace_bell_s(g, verts) ==
    LET g1 == add_edge_smart(g, verts[1], verts[2], "N")
        g2 == add_to_phase(g1, verts[1], -1)
    IN  add_to_phase(g2, verts[2], 1)

replace_epr(g, verts) ==
    LET g1 == scalar_mul(g, ScalarFromPhase(1))
        w == num_vertices(g1) + 1
        g2 == add_vertex_with_phase(g1, "Z", 4)
    IN  AddPhaseEdgeAll(g2, verts, w, -1, "H")

replace_t0(g, verts) ==
    LET g1 == scalar_mul(g, Exact(-1, <<0, 1, 0, -1>>))
        w == num_vertices(g1) + 1
        g2 == add_vertex(g1, "Z")
        g3 == add_edge_with_type(g2, verts[1], w, "H")
    IN  add_to_phase(g3, verts[1], -1)

\* replace_t1 with the new vertex left at phase 0, as in replace_t0
replace_t1_phase0(g, verts) ==
    LET g1 == scalar_mul(g, Exact(-1, <<1, 0, 1, 0>>))
        w == num_vertices(g1) + 1
        g2 == add_vertex(g1, "Z")
        g3 == add_edge_with_type(g2, verts[1], w, "H")
    IN  add_to_phase(g3, verts[1], -1)

replace_t1(g, verts) ==
    LET g1 == scalar_mul(g, Exact(-1, <<1, 0, 1, 0>>))
        w == num_vertices(g1) + 1
        g2 == add_vertex_with_phase(g1, "Z", 4)
        g3 == add_edge_with_type(g2, verts[1], w, "H")
    IN  add_to_phase(g3, verts[1], -1)

\* the fn pointers handed to push_decomp, by name
ApplyRewrite(f, g, verts) ==
    CASE f = "b60" -> replace_b60(g, verts)
      [] f = "b66" -> replace_b66(g, verts)
      [] f = "e6" -> replace_e6(g, verts)
      [] f = "o6" -> replace_o6(g, verts)
      [] f = "k6" -> replace_k6(g, verts)
      [] f = "phi1" -> replace_phi1(g, verts)
      [] f = "phi2" -> replace_phi2(g, verts)
      [] f = "bell_s" -> replace_bell_s(g, verts)
      [] f = "epr" -> replace_epr(g, verts)
      [] f = "t0" -> replace_t0(g, verts)
      [] f = "t1" -> replace_t1(g, verts)

(***************************************************************************)
(* State.                                                                  *)
(*   d     the Decomposer the caller holds                                 *)
(*   ds    the Vec<Decomposer> returned by split (<<>> when there is none) *)
(*   pc    where control is: "idle" between calls, or inside a call        *)
(*   arg   the depth argument of the running call                          *)
(*   hook  how many T-vertices full_simp removes from a graph it is given  *)
(*   seed  the Decomposer as it was seeded (history)                       *)
(*   last  the last call that returned, its depth argument and whether it  *)
(*         was made on the freshly seeded Decomposer (history)             *)
(***************************************************************************)
VARIABLES d, ds, pc, arg, hook, seed, last

vars == <<d, ds, pc, arg, hook, seed, last>>

(***************************************************************************)
(* The simplification hook crate::simplify::full_simp.  Its contract is    *)
(* that it adds no T-vertex; it may remove some.  Here it turns the first  *)
(* `hook` T-vertices of the graph into Clifford vertices.                  *)
(***************************************************************************)
\* the loop over the vertices from v on, with k T-vertices still to remove
RECURSIVE DropT(_, _, _)
DropT(g, k, v) ==
    IF k = 0 \/ v > num_vertices(g) THEN g
    ELSE IF IsT(g, v) THEN DropT(add_to_phase(g, v, -1), k - 1, v + 1)
         ELSE DropT(g, k, v + 1)

\* full_simp applied to g (g is bound, so that it is evaluated once)
full_simp(g) == CHOOSE r \in {DropT(h, hook, 1) : h \in {g}} : TRUE

(***************************************************************************)
(* Decomposer.                                                             *)
(***************************************************************************)
empty ==
    [stack |-> <<>>, done |-> <<>>, scalar |-> ScalarZero, nterms |-> 0,
     simp_func |-> "NoSimp", random_t |-> FALSE, save |-> FALSE]

new(g) == [empty EXCEPT !.stack = Append(@, <<0, g>>)]

\* split with the loop `while self.stack.len() > 0`: the frontier is emptied into
\* new Decomposers and self is pushed with nothing left
RECURSIVE SplitLoopToZero(_, _)
SplitLoopToZero(self, out) ==
    IF Len(self.stack) > 0
    THEN LET g == Head(self.stack)[2]
             d1 == [new(g) EXCEPT !.save = self.save,
                                  !.random_t = self.random_t,
                                  !.simp_func = self.simp_func]
         IN  SplitLoopToZero([self EXCEPT !.stack = Tail(@)], Append(out, d1))
    ELSE Append(out, self)

split_to_zero(self) == SplitLoopToZero(self, <<>>)

\* split whose new Decomposers do not inherit the save flag
RECURSIVE SplitLoopNoSave(_, _)
SplitLoopNoSave(self, out) ==
    IF Len(self.stack) > 1
    THEN LET g == Head(self.stack)[2]
             d1 == [new(g) EXCEPT !.random_t = self.random_t,
                                  !.simp_func = self.simp_func]
         IN  SplitLoopNoSave([self EXCEPT !.stack = Tail(@)], Append(out, d1))
    ELSE Append(out, self)

split_no_save(self) == SplitLoopNoSave(self, <<>>)

\* the loop of split, with the list built so far
RECURSIVE SplitLoop(_, _)
SplitLoop(self, out) ==
    IF Len(self.stack) > 1
    THEN LET g == Head(self.stack)[2]
             d1 == [new(g) EXCEPT !.save = self.save,
                                  !.random_t = self.random_t,
                                  !.simp_func = self.simp_func]
         IN  SplitLoop([self EXCEPT !.stack = Tail(@)], Append(out, d1))
    ELSE Append(out, self)

split(self) == SplitLoop(self, <<>>)

\* the inner loop of merge without `d.scalar = &d.scalar + &d1.scalar`
RECURSIVE MergeLoopNoScalar(_, _)
MergeLoopNoScalar(acc, rest) ==
    IF rest = <<>> THEN acc
    ELSE LET d1 == rest[Len(rest)]
         IN  MergeLoopNoScalar([acc EXCEPT !.nterms = @ + d1.nterms,
                                           !.stack = @ \o d1.stack,
                                           !.done = @ \o d1.done],
                               SubSeq(rest, 1, Len(rest) - 1))

\* the inner loop of merge with `d.nterms = d1.nterms` for `d.nterms += d1.nterms`
RECURSIVE MergeLoopAssignTerms(_, _)
MergeLoopAssignTerms(acc, rest) ==
    IF rest = <<>> THEN acc
    ELSE LET d1 == rest[Len(rest)]
         IN  MergeLoopAssignTerms([acc EXCEPT !.scalar = ScalarAdd(@, d1.scalar),
                                              !.nterms = d1.nterms,
                                              !.stack = @ \o d1.stack,
                                              !.done = @ \o d1.done],
                                  SubSeq(rest, 1, Len(rest) - 1))

\* the inner loop of merge that puts the entries of d1 before those of d
RECURSIVE MergeLoopPrepend(_, _)
MergeLoopPrepend(acc, rest) ==
    IF rest = <<>> THEN acc
    ELSE LET d1 == rest[Len(rest)]
         IN  MergeLoopPrepend([acc EXCEPT !.scalar = ScalarAdd(@, d1.scalar),
                                          !.nterms = @ + d1.nterms,
                                          !.stack = d1.stack \o @,
                                          !.done = d1.done \o @],
                              SubSeq(rest, 1, Len(rest) - 1))

\* the inner loop of merge: d is the accumulator, rest is what is left of ds
RECURSIVE MergeLoop(_, _)
MergeLoop(acc, rest) ==
    IF rest = <<>> THEN acc
    ELSE LET d1 == rest[Len(rest)]
         IN  MergeLoop([acc EXCEPT !.scalar = ScalarAdd(@, d1.scalar),
                                   !.nterms = @ + d1.nterms,
                                   !.stack = @ \o d1.stack,
                                   !.done = @ \o d1.done],
                       SubSeq(rest, 1, Len(rest) - 1))

\* merge that returns the popped Decomposer and drops the others
merge_last_only(list) ==
    IF list = <<>> THEN empty ELSE list[Len(list)]

merge(list) ==
    IF list = <<>> THEN empty
    ELSE MergeLoop(list[Len(list)], SubSeq(list, 1, Len(list) - 1))

RECURSIVE Pow(_, _)
Pow(b, n) == IF n = 0 THEN 1 ELSE b * Pow(b, n - 1)

\* the body of the loop of max_terms without the doubling for an odd remainder
TermBoundNoOdd(g) ==
    LET t == tcount(g)
        c1 == Pow(7, t \div 6)
        t2 == t % 6
    IN  c1 * Pow(2, t2 \div 2)

\* the body of the loop of max_terms for one graph
TermBound(g) ==
    LET t == tcount(g)
        c1 == Pow(7, t \div 6)
        t2 == t % 6
        c2 == c1 * Pow(2, t2 \div 2)
    IN  IF t2 % 2 = 1 THEN c2 * 2 ELSE c2

RECURSIVE SumBounds(_)
SumBounds(st) ==
    IF st = <<>> THEN 0 ELSE TermBound(Head(st)[2]) + SumBounds(Tail(st))

max_terms(self) == SumBounds(self.stack)

\* first_ts with the break at `t.len() == 5`
RECURSIVE FirstLoop5(_, _, _)
FirstLoop5(g, v, t) ==
    IF v > num_vertices(g) \/ Len(t) = 5 THEN t
    ELSE FirstLoop5(g, v + 1, IF IsT(g, v) THEN Append(t, v) ELSE t)

first_ts_break5(g) == FirstLoop5(g, 1, <<>>)

\* first_ts: scan the vertices from v on, with the list t collected so far
RECURSIVE FirstLoop(_, _, _)
FirstLoop(g, v, t) ==
    IF v > num_vertices(g) \/ Len(t) = 6 THEN t
    ELSE FirstLoop(g, v + 1, IF IsT(g, v) THEN Append(t, v) ELSE t)

first_ts(g) == FirstLoop(g, 1, <<>>)

\* Vec::swap_remove(i): the last element takes the place of element i
swap_remove(s, i) ==
    IF i = Len(s) THEN SubSeq(s, 1, Len(s) - 1)
    ELSE [j \in 1..(Len(s) - 1) |-> IF j = i THEN s[Len(s)] ELSE s[j]]

\* every list random_ts can return, over the choices of rng.gen_range
RECURSIVE RandomLoop(_, _)
RandomLoop(all_t, t) ==
    IF Len(t) < 6 /\ Len(all_t) > 0
    THEN UNION {RandomLoop(r[1], r[2]) :
                    r \in {<<swap_remove(all_t, i), Append(t, all_t[i])>> :
                               i \in 1..Len(all_t)}}
    ELSE {t}

\* all_t of random_ts: g.vertices().filter(..).collect(), from vertex v on
RECURSIVE AllT(_, _)
AllT(g, v) ==
    IF v > num_vertices(g) THEN <<>>
    ELSE IF IsT(g, v) THEN <<v>> \o AllT(g, v + 1) ELSE AllT(g, v + 1)

random_ts(g) == RandomLoop(AllT(g, 1), <<>>)

\* the selections decomp_top and decomp_until_depth can make for g
SelectTs(self, g) == IF self.random_t THEN random_ts(g) ELSE {first_ts(g)}

\* push_decomp with push_front for push_back
push_decomp_front(self, fs, depth, g, verts) ==
    [self EXCEPT !.stack =
        [i \in 1..Len(fs) |->
            <<depth, IF self.simp_func = "FullSimp"
                     THEN full_simp(ApplyRewrite(fs[Len(fs) + 1 - i], g, verts))
                     ELSE ApplyRewrite(fs[Len(fs) + 1 - i], g, verts)>>] \o @]

\* `for f in fs { ...; self.stack.push_back((depth, g)) }`: one entry per rewrite
\* of fs, in the order of fs, each simplified when simp_func is FullSimp
push_decomp(self, fs, depth, g, verts) ==
    [self EXCEPT !.stack = @ \o
        [i \in 1..Len(fs) |->
            <<depth, IF self.simp_func = "FullSimp"
                     THEN full_simp(ApplyRewrite(fs[i], g, verts))
                     ELSE ApplyRewrite(fs[i], g, verts)>>]]

push_bss_decomp(self, depth, g, verts) ==
    push_decomp(self, <<"b60", "b66", "e6", "o6", "k6", "phi1", "phi2">>, depth, g, verts)

push_sym_decomp(self, depth, g, verts) ==
    push_decomp(self, <<"bell_s", "epr">>, depth, g, verts)

push_single_decomp(self, depth, g, verts) ==
    push_decomp(self, <<"t0", "t1">>, depth, g, verts)

\* decomp_ts whose terminal branch counts the term without adding its scalar
decomp_ts_no_scalar(self, depth, g, ts) ==
    IF Len(ts) = 6 THEN push_bss_decomp(self, depth + 1, g, ts)
    ELSE IF Len(ts) >= 2 THEN push_sym_decomp(self, depth + 1, g, SubSeq(ts, 1, 2))
    ELSE IF Len(ts) = 1 THEN push_single_decomp(self, depth + 1, g, ts)
    ELSE [self EXCEPT !.nterms = @ + 1,
                      !.done = IF self.save THEN Append(@, g) ELSE @]

\* decomp_ts whose terminal branch returns after the warning when the graph still
\* has vertices
decomp_ts_skip_residual(self, depth, g, ts) ==
    IF Len(ts) = 6 THEN push_bss_decomp(self, depth + 1, g, ts)
    ELSE IF Len(ts) >= 2 THEN push_sym_decomp(self, depth + 1, g, SubSeq(ts, 1, 2))
    ELSE IF Len(ts) = 1 THEN push_single_decomp(self, depth + 1, g, ts)
    ELSE IF num_vertices(g) # 0 THEN self
    ELSE [self EXCEPT !.scalar = ScalarAdd(@, g.sc),
                      !.nterms = @ + 1,
                      !.done = IF self.save THEN Append(@, g) ELSE @]

\* decomp_ts that pushes the children at the depth of their parent
decomp_ts_same_depth(self, depth, g, ts) ==
    IF Len(ts) = 6 THEN push_bss_decomp(self, depth, g, ts)
    ELSE IF Len(ts) >= 2 THEN push_sym_decomp(self, depth, g, SubSeq(ts, 1, 2))
    ELSE IF Len(ts) = 1 THEN push_single_decomp(self, depth, g, ts)
    ELSE [self EXCEPT !.scalar = ScalarAdd(@, g.sc),
                      !.nterms = @ + 1,
                      !.done = IF self.save THEN Append(@, g) ELSE @]

decomp_ts(self, depth, g, ts) ==
    IF Len(ts) = 6 THEN push_bss_decomp(self, depth + 1, g, ts)
    ELSE IF Len(ts) >= 2 THEN push_sym_decomp(self, depth + 1, g, SubSeq(ts, 1, 2))
    ELSE IF Len(ts) = 1 THEN push_single_decomp(self, depth + 1, g, ts)
    ELSE [self EXCEPT !.scalar = ScalarAdd(@, g.sc),
                      !.nterms = @ + 1,
                      !.done = IF self.save THEN Append(@, g) ELSE @]

\* decomp_top on a non-empty stack, for the selection ts
TopStep(self, ts) ==
    LET e == self.stack[Len(self.stack)]
    IN  decomp_ts([self EXCEPT !.stack = SubSeq(@, 1, Len(@) - 1)], e[1], e[2], ts)

\* one iteration of the loop of decomp_until_depth that reduces the front entry
FrontStep(self, ts) ==
    LET e == Head(self.stack)
    IN  decomp_ts([self EXCEPT !.stack = Tail(@)], e[1], e[2], ts)

\* decomp_all run to completion on a Decomposer with the deterministic selection
RECURSIVE decomp_all(_)
decomp_all(self) ==
    IF Len(self.stack) > 0
    THEN decomp_all(TopStep(self, first_ts(self.stack[Len(self.stack)][2])))
    ELSE self

(***************************************************************************)
(* Seeds: the graphs of the tests, n vertices of phase k/4, each joined to *)
(* its own boundary (output) vertex.                                       *)
(***************************************************************************)
RECURSIVE TestGraph(_, _)
TestGraph(n, k) ==
    IF n = 0 THEN EmptyGraph
    ELSE LET g == TestGraph(n - 1, k)
             v == num_vertices(g) + 1
             g1 == add_vertex_with_phase(g, "Z", k)
             g2 == add_vertex(g1, "B")
         IN  add_edge_with_type(g2, v, v + 1, "N")

Seeded(g, simp, rnd, sv) ==
    [new(g) EXCEPT !.simp_func = simp, !.random_t = rnd, !.save = sv]

NoCall == [op |-> "none", arg |-> 0, fresh |-> FALSE]

Returned(op, a) == [op |-> op, arg |-> a, fresh |-> last.fresh]

(***************************************************************************)
(* Sequential calls on d.                                                  *)
(***************************************************************************)
\* decomp_top: pop_back().unwrap() panics on an empty stack
decomp_top ==
    /\ pc = "idle"
    /\ IF Len(d.stack) = 0
       THEN /\ pc' = "panic"
            /\ UNCHANGED <<d, last>>
       ELSE /\ \E ts \in SelectTs(d, d.stack[Len(d.stack)][2]) : d' = TopStep(d, ts)
            /\ last' = [op |-> "decomp_top", arg |-> 0, fresh |-> d = seed]
            /\ pc' = "idle"
    /\ UNCHANGED <<ds, arg, hook, seed>>

\* pop_graph: pop_back().unwrap() panics on an empty stack; the graph is returned
pop_graph ==
    /\ pc = "idle"
    /\ IF Len(d.stack) = 0
       THEN /\ pc' = "panic"
            /\ UNCHANGED <<d, last>>
       ELSE /\ d' = [d EXCEPT !.stack = SubSeq(@, 1, Len(@) - 1)]
            /\ last' = [op |-> "pop_graph", arg |-> 0, fresh |-> d = seed]
            /\ pc' = "idle"
    /\ UNCHANGED <<ds, arg, hook, seed>>

decomp_all_call ==
    /\ pc = "idle"
    /\ pc' = "all"
    /\ last' = [last EXCEPT !.fresh = (d = seed)]
    /\ UNCHANGED <<d, ds, arg, hook, seed>>

\* one evaluation of the loop written `while self.stack.len() > 1`
decomp_all_step_until_one ==
    /\ pc = "all"
    /\ IF Len(d.stack) > 1
       THEN /\ \E ts \in SelectTs(d, d.stack[Len(d.stack)][2]) : d' = TopStep(d, ts)
            /\ UNCHANGED <<pc, last>>
       ELSE /\ pc' = "idle"
            /\ last' = Returned("decomp_all", 0)
            /\ UNCHANGED d
    /\ UNCHANGED <<ds, arg, hook, seed>>

\* the loop of decomp_all written `loop { self.decomp_top(); if self.stack.len() == 0 { break } }`
decomp_all_step_pop_first ==
    /\ pc = "all"
    /\ IF Len(d.stack) > 0
       THEN /\ \E ts \in SelectTs(d, d.stack[Len(d.stack)][2]) : d' = TopStep(d, ts)
            /\ IF Len(d'.stack) = 0
               THEN pc' = "idle" /\ last' = Returned("decomp_all", 0)
               ELSE UNCHANGED <<pc, last>>
       ELSE /\ pc' = "panic"
            /\ UNCHANGED <<d, last>>
    /\ UNCHANGED <<ds, arg, hook, seed>>

\* one evaluation of the loop `while self.stack.len() > 0 { self.decomp_top(); }`
decomp_all_step ==
    /\ pc = "all"
    /\ IF Len(d.stack) > 0
       THEN /\ \E ts \in SelectTs(d, d.stack[Len(d.stack)][2]) : d' = TopStep(d, ts)
            /\ UNCHANGED <<pc, last>>
       ELSE /\ pc' = "idle"
            /\ last' = Returned("decomp_all", 0)
            /\ UNCHANGED d
    /\ UNCHANGED <<ds, arg, hook, seed>>

decomp_until_depth_call ==
    /\ pc = "idle"
    /\ \E depth \in 0..MaxDepth : arg' = depth
    /\ pc' = "until"
    /\ last' = [last EXCEPT !.fresh = (d = seed)]
    /\ UNCHANGED <<d, ds, hook, seed>>

\* the same call with depth arguments up to MaxApiDepth
decomp_until_depth_call_deep ==
    /\ pc = "idle"
    /\ \E depth \in 0..MaxApiDepth : arg' = depth
    /\ pc' = "until"
    /\ last' = [last EXCEPT !.fresh = (d = seed)]
    /\ UNCHANGED <<d, ds, hook, seed>>

\* one evaluation of the loop of decomp_until_depth on self, leaving to pc = ret
UntilStep(ret, op) ==
    IF Len(d.stack) > 0 /\ Head(d.stack)[1] < arg
    THEN /\ \E ts \in SelectTs(d, Head(d.stack)[2]) : d' = FrontStep(d, ts)
         /\ UNCHANGED <<pc, last>>
    ELSE \* empty stack, or the front entry is pushed back in place and the loop breaks
         /\ pc' = ret
         /\ last' = Returned(op, arg)
         /\ UNCHANGED d

decomp_until_depth_step ==
    /\ pc = "until"
    /\ UntilStep("idle", "decomp_until_depth")
    /\ UNCHANGED <<ds, arg, hook, seed>>

(***************************************************************************)
(* decomp_parallel(depth): decomp_until_depth, split, decomp_all on every  *)
(* unit (a rayon parallel map: the units advance in any interleaving, one  *)
(* decomp_top at a time, and the results are collected in list order),     *)
(* then merge.  self is moved into the call: d holds nothing meanwhile.    *)
(***************************************************************************)
decomp_parallel_call ==
    /\ pc = "idle"
    /\ \E depth \in 0..MaxDepth : arg' = depth
    /\ pc' = "par_until"
    /\ last' = [last EXCEPT !.fresh = (d = seed)]
    /\ UNCHANGED <<d, ds, hook, seed>>

par_until_step ==
    /\ pc = "par_until"
    /\ UntilStep("par_split", "decomp_until_depth")
    /\ UNCHANGED <<ds, arg, hook, seed>>

par_split ==
    /\ pc = "par_split"
    /\ ds' = split(d)
    /\ d' = empty
    /\ pc' = "par_map"
    /\ UNCHANGED <<arg, hook, seed, last>>

\* one decomp_top of the decomp_all that runs on unit i
par_worker(i) ==
    /\ pc = "par_map"
    /\ Len(ds[i].stack) > 0
    /\ \E ts \in SelectTs(ds[i], ds[i].stack[Len(ds[i].stack)][2]) :
          ds' = [ds EXCEPT ![i] = TopStep(ds[i], ts)]
    /\ UNCHANGED <<d, pc, arg, hook, seed, last>>

\* every decomp_all has returned: collect() and merge
par_merge ==
    /\ pc = "par_map"
    /\ \A i \in 1..Len(ds) : Len(ds[i].stack) = 0
    /\ d' = merge(ds)
    /\ ds' = <<>>
    /\ pc' = "idle"
    /\ last' = Returned("decomp_parallel", arg)
    /\ UNCHANGED <<arg, hook, seed>>

(***************************************************************************)
(* split and merge called by the user.                                     *)
(***************************************************************************)
split_call ==
    /\ pc = "idle"
    /\ ds' = split(d)
    /\ d' = empty
    /\ pc' = "split"
    /\ last' = [op |-> "split", arg |-> 0, fresh |-> d = seed]
    /\ UNCHANGED <<arg, hook, seed>>

merge_call ==
    /\ pc = "split"
    /\ d' = merge(ds)
    /\ ds' = <<>>
    /\ pc' = "idle"
    /\ last' = Returned("merge", 0)
    /\ UNCHANGED <<arg, hook, seed>>

(***************************************************************************)
(* Driver runs: a seeded Decomposer on which the caller may first call     *)
(* decomp_until_depth, and then calls decomp_top and decomp_all in any     *)
(* order (the call patterns of the tests and of decomp_parallel).          *)
(***************************************************************************)
SeedPhases == {1, 7}

Configs ==
    {c \in [n : 0..MaxT, k : SeedPhases, sv : BOOLEAN, rnd : BOOLEAN,
            simp : {"NoSimp", "FullSimp"}, hook : 0..MaxHookDrop] :
        /\ c.rnd => c.n <= MaxRandT
        /\ c.simp = "NoSimp" => c.hook = 0}

InitFrom(c) ==
    /\ d = Seeded(TestGraph(c.n, c.k), c.simp, c.rnd, c.sv)
    /\ seed = d
    /\ hook = c.hook
    /\ ds = <<>>
    /\ pc = "idle"
    /\ arg = 0
    /\ last = NoCall

InitRun == \E c \in Configs : InitFrom(c)

NextRun ==
    \/ decomp_top
    \/ decomp_all_call
    \/ decomp_all_step
    \/ (last.op = "none" /\ decomp_until_depth_call)
    \/ decomp_until_depth_step

SpecRun == InitRun /\ [][NextRun]_vars

(***************************************************************************)
(* Runs of decomp_all: a seeded Decomposer, reduced by any number of       *)
(* decomp_top calls, on which decomp_all is then called.  The loop of      *)
(* decomp_all is sequential code: it keeps running until it returns.       *)
(***************************************************************************)
InitAll ==
    \E c \in Configs :
        /\ c.n <= MaxAllT /\ c.k = 1
        /\ c.rnd => c.n <= MaxAllRandT
        /\ InitFrom(c)

NextAll ==
    \/ decomp_top
    \/ decomp_all_call
    \/ decomp_all_step

SpecAll == InitAll /\ [][NextAll]_vars

SpecAllFair == SpecAll /\ WF_vars(decomp_all_step)

(***************************************************************************)
(* Free runs: a seeded Decomposer on which the caller makes any sequence   *)
(* of calls of decomp_top, pop_graph, decomp_all, decomp_until_depth and   *)
(* decomp_parallel, each call made when the one before has returned.       *)
(***************************************************************************)
InitApi ==
    \E c \in Configs :
        /\ c.n <= MaxApiT /\ c.k = 1 /\ ~c.sv /\ c.simp = "NoSimp"
        /\ c.rnd => c.n <= MaxAllRandT
        /\ InitFrom(c)

NextApi ==
    \/ decomp_top
    \/ pop_graph
    \/ decomp_all_call
    \/ decomp_all_step
    \/ decomp_until_depth_call_deep
    \/ decomp_until_depth_step
    \/ decomp_parallel_call
    \/ par_until_step
    \/ par_split
    \/ \E i \in 1..Len(ds) : par_worker(i)
    \/ par_merge

SpecApi == InitApi /\ [][NextApi]_vars

(***************************************************************************)
(* Properties of driver runs.                                              *)
(***************************************************************************)
SeedGraph == seed.stack[1][2]

\* the hook is off, or it leaves the T-count of every graph unchanged
HookKeepsT == seed.simp_func = "NoSimp" \/ hook = 0

\* 7^(T div 6) * 2^((T mod 6) div 2) * (2 if T mod 6 is odd, else 1)
ClaimedTerms(t) ==
    Pow(7, t \div 6) * Pow(2, (t % 6) \div 2) * (IF (t % 6) % 2 = 1 THEN 2 ELSE 1)

\* C5: once a seed with T T-vertices is fully reduced (empty frontier), with
\* simplification off or a hook that keeps T-counts, the term count (and the
\* archive length when archiving) is ClaimedTerms(T), which is also max_terms()
\* of the fresh Decomposer; 2 for T=1, 2 for T=2, 7 for T=6, 28 for T=9.
C5_TermCount ==
    /\ ClaimedTerms(1) = 2 /\ ClaimedTerms(2) = 2
    /\ ClaimedTerms(6) = 7 /\ ClaimedTerms(9) = 28
    /\ d = seed => max_terms(d) = ClaimedTerms(tcount(SeedGraph))
    /\ (Len(d.stack) = 0 /\ HookKeepsT) =>
          /\ d.nterms = ClaimedTerms(tcount(SeedGraph))
          /\ d.save => Len(d.done) = ClaimedTerms(tcount(SeedGraph))
          /\ ~d.save => Len(d.done) = 0

C5_Witness ==
    /\ tcount(SeedGraph) = 9
    /\ d.simp_func = "FullSimp" /\ hook = 0 /\ d.save
    /\ last.op = "decomp_all" /\ pc = "idle"
    /\ Len(d.stack) = 0 /\ d.nterms = 28 /\ Len(d.done) = 28

\* C6: a running decomp_all eventually returns with an empty frontier, and an
\* empty frontier stays empty.
C6_Terminates ==
    /\ (pc = "all") ~> (pc = "idle" /\ Len(d.stack) = 0)
    /\ [][Len(d.stack) = 0 => Len(d'.stack) = 0]_vars

C6_Witness ==
    /\ pc = "idle" /\ last.op = "decomp_all" /\ Len(d.stack) = 0
    /\ ~d.random_t /\ d.simp_func = "FullSimp" /\ hook = 1
    /\ tcount(SeedGraph) = 6 /\ last.fresh /\ d.nterms = 7

\* C7: when decomp_until_depth(D), called on a fresh seed, returns, every
\* frontier entry has depth D; for a 9-T seed, deterministic selection, D = 2
\* (and no T-vertex removed by the hook) the frontier has 14 entries.
C7_UniformDepth ==
    (pc = "idle" /\ last.op = "decomp_until_depth" /\ last.fresh) =>
        /\ \A i \in 1..Len(d.stack) : d.stack[i][1] = last.arg
        /\ (tcount(SeedGraph) = 9 /\ ~d.random_t /\ last.arg = 2 /\ HookKeepsT)
              => Len(d.stack) = 14

C7_Witness ==
    /\ pc = "idle" /\ last.op = "decomp_until_depth" /\ last.fresh
    /\ tcount(SeedGraph) = 9 /\ last.arg = 2
    /\ Len(d.stack) = 14 /\ \A i \in 1..14 : d.stack[i][1] = 2

\* the family the claim assigns to a selection of length n, and the vertices it uses
FamilyOf(n) ==
    IF n = 6 THEN <<"b60", "b66", "e6", "o6", "k6", "phi1", "phi2">>
    ELSE IF n >= 2 THEN <<"bell_s", "epr">>
    ELSE IF n = 1 THEN <<"t0", "t1">>
    ELSE <<>>

UsedOf(ts) == IF Len(ts) >= 2 /\ Len(ts) # 6 THEN SubSeq(ts, 1, 2) ELSE ts

\* the entry a step of the running call pops: the front one in decomp_until_depth,
\* the back one otherwise
PoppedIndex == IF pc = "until" THEN 1 ELSE Len(d.stack)

\* C12: a step that pops (depth, g) and selects ts leaves the other entries as
\* they were, in their order, followed by the children of the family of Len(ts)
\* (7 for 6, 2 for 2..5 built on the first two vertices, 2 for 1, none for 0) at
\* depth + 1 in the order of the family.
C12_Dispatch ==
    [][d' # d =>
        LET e == d.stack[PoppedIndex]
            rest == [i \in 1..(Len(d.stack) - 1) |->
                        IF i < PoppedIndex THEN d.stack[i] ELSE d.stack[i + 1]]
        IN  \E ts \in SelectTs(d, e[2]) :
                LET fam == FamilyOf(Len(ts))
                IN  /\ Len(fam) = (IF Len(ts) = 6 THEN 7 ELSE IF Len(ts) >= 1 THEN 2 ELSE 0)
                    /\ Len(d'.stack) = Len(d.stack) - 1 + Len(fam)
                    /\ SubSeq(d'.stack, 1, Len(rest)) = rest
                    /\ \A i \in 1..Len(fam) :
                          /\ d'.stack[Len(rest) + i][1] = e[1] + 1
                          /\ d'.stack[Len(rest) + i][2] =
                                (IF d.simp_func = "FullSimp"
                                 THEN full_simp(ApplyRewrite(fam[i], e[2], UsedOf(ts)))
                                 ELSE ApplyRewrite(fam[i], e[2], UsedOf(ts)))]_vars

C12_Witness ==
    /\ pc = "idle" /\ last.op = "decomp_top" /\ tcount(SeedGraph) = 9
    /\ d.simp_func = "NoSimp" /\ Len(d.stack) = 8
    /\ \A i \in 1..6 : d.stack[i][1] = 1 /\ tcount(d.stack[i][2]) = 3
    /\ \A i \in 7..8 : d.stack[i][1] = 2 /\ tcount(d.stack[i][2]) = 1

\* C14: a step that pops a graph g without T-vertices adds the scalar of g to
\* the accumulator, adds one to the term count, appends g to the archive iff
\* save is set, pushes nothing and leaves the other entries, the flags and the
\* running call as they are; so it is whether or not g has vertices left.
C14_Terminal ==
    [][(d' # d /\ tcount(d.stack[PoppedIndex][2]) = 0) =>
        LET g == d.stack[PoppedIndex][2]
        IN  /\ d'.scalar = ScalarAdd(d.scalar, g.sc)
            /\ d'.nterms = d.nterms + 1
            /\ d'.done = (IF d.save THEN Append(d.done, g) ELSE d.done)
            /\ d'.stack = [i \in 1..(Len(d.stack) - 1) |->
                              IF i < PoppedIndex THEN d.stack[i] ELSE d.stack[i + 1]]
            /\ d'.simp_func = d.simp_func /\ d'.random_t = d.random_t
            /\ d'.save = d.save
            /\ pc' = pc /\ pc' # "panic"]_vars

C14_Witness ==
    /\ pc = "all" /\ d.save /\ Len(d.stack) > 0
    /\ Len(d.done) = 2 /\ d.nterms = 2 /\ d.scalar # ScalarZero
    /\ num_vertices(d.done[2]) > 0 /\ tcount(d.done[2]) = 0

\* a call of decomp_all, decomp_until_depth or decomp_parallel is running
Running == pc \in {"all", "until", "par_until", "par_split", "par_map"}

\* C15: decomp_top and pop_graph on an empty frontier end in the panic, from
\* which nothing goes on; the panic arises in no other way, so not inside
\* decomp_all, decomp_until_depth or decomp_parallel, which on an empty
\* frontier have a next step and return without a reduction step.
C15_PanicOnlyOnEmptyPop ==
    /\ [](  (Running /\ Len(d.stack) = 0 /\ \A i \in 1..Len(ds) : Len(ds[i].stack) = 0)
          => ENABLED NextApi)
    /\ [][/\ (Len(d.stack) = 0 /\ (decomp_top \/ pop_graph)) => pc' = "panic"
          /\ pc # "panic"
          /\ pc' = "panic" => (pc = "idle" /\ Len(d.stack) = 0)
          /\ (Len(d.stack) = 0 /\ pc \in {"all", "until"}) => (pc' = "idle" /\ d' = d)
          /\ (Len(d.stack) = 0 /\ pc = "par_until") => (pc' = "par_split" /\ d' = d)
          /\ pc' = "idle" => (pc \in {"idle", "all", "until", "par_map"} /\ ds' = <<>>)
       ]_vars

C15_Witness ==
    /\ pc = "panic" /\ Len(d.stack) = 0
    /\ last.op = "decomp_parallel" /\ d.nterms = 8

\* C8 (as claimed): no step increases max_terms(), with the hook off or on.  It
\* fails when the hook lowers a child from 6 T-vertices to 5: TermBound is 7
\* for 6 T-vertices and 8 for 5.
C8_NonIncreasing == [][max_terms(d') <= max_terms(d)]_vars

(***************************************************************************)
(* Parallel runs: decomp_parallel on a seeded Decomposer with the          *)
(* deterministic selection.  The seeds have up to MaxParT T-vertices, or   *)
(* the six of tests::bss (one full BSS step, seven work units).            *)
(***************************************************************************)
InitPar ==
    \E c \in Configs :
        /\ c.n <= MaxParT \/ c.n = 6
        /\ c.k = 1 /\ ~c.rnd
        /\ InitFrom(c)

NextPar ==
    \/ decomp_parallel_call
    \/ par_until_step
    \/ par_split
    \/ \E i \in 1..Len(ds) : par_worker(i)
    \/ par_merge

SpecPar == InitPar /\ [][NextPar]_vars

(***************************************************************************)
(* Split / merge runs: a seeded Decomposer reduced by decomp_top and       *)
(* decomp_until_depth calls, split and merged at any point.                *)
(***************************************************************************)
InitSplit == \E c \in Configs : c.n <= MaxSplitT /\ c.k = 1 /\ InitFrom(c)

NextSplit ==
    \/ decomp_top
    \/ decomp_until_depth_call
    \/ decomp_until_depth_step
    \/ split_call
    \/ merge_call

SpecSplit == InitSplit /\ [][NextSplit]_vars

(***************************************************************************)
(* Properties of parallel runs.                                            *)
(***************************************************************************)
BagOfSeq(q) ==
    [x \in {q[i] : i \in DOMAIN q} |-> Cardinality({i \in DOMAIN q : q[i] = x})]

\* the graphs of a frontier, without their depths
Graphs(st) == [i \in DOMAIN st |-> st[i][2]]

\* C1: decomp_parallel(depth) on a seed returns, under every interleaving of the
\* workers, with an empty frontier and with the term count, the scalar and the
\* multiset of archived graphs that decomp_all computes for the same seed.
C1_ParallelEqualsSequential ==
    (pc = "idle" /\ last.op = "decomp_parallel" /\ last.fresh) =>
        LET r == decomp_all(seed)
        IN  /\ Len(d.stack) = 0
            /\ d.nterms = r.nterms
            /\ d.scalar = r.scalar
            /\ BagOfSeq(d.done) = BagOfSeq(r.done)

C1_Witness ==
    /\ pc = "idle" /\ last.op = "decomp_parallel" /\ last.fresh /\ last.arg = 1
    /\ tcount(SeedGraph) = 5 /\ d.save
    /\ Len(d.stack) = 0 /\ d.nterms = 8 /\ Len(d.done) = 8

\* The value a graph has when every rewrite family is sound: the attached scalar
\* of a graph without T-vertices, else the sum of the values of the children
\* that the family chosen for it produces.
RECURSIVE Value(_)
SumValues(fs, g, verts) ==
    LET RECURSIVE Sum(_)
        Sum(i) == IF i > Len(fs) THEN ScalarZero
                  ELSE ScalarAdd(Value(ApplyRewrite(fs[i], g, verts)), Sum(i + 1))
    IN  Sum(1)

Value(g) ==
    LET ts == first_ts(g)
    IN  IF Len(ts) = 6
        THEN SumValues(<<"b60", "b66", "e6", "o6", "k6", "phi1", "phi2">>, g, ts)
        ELSE IF Len(ts) >= 2 THEN SumValues(<<"bell_s", "epr">>, g, SubSeq(ts, 1, 2))
        ELSE IF Len(ts) = 1 THEN SumValues(<<"t0", "t1">>, g, ts)
        ELSE g.sc

RECURSIVE FrontierValue(_)
FrontierValue(st) ==
    IF st = <<>> THEN ScalarZero
    ELSE ScalarAdd(Value(Head(st)[2]), FrontierValue(Tail(st)))

\* accumulated scalar plus the value of the frontier, of one Decomposer
Pending(self) == ScalarAdd(self.scalar, FrontierValue(self.stack))

RECURSIVE PendingAll(_)
PendingAll(list) ==
    IF list = <<>> THEN ScalarZero
    ELSE ScalarAdd(Pending(Head(list)), PendingAll(Tail(list)))

\* C3: with simplification off (or a hook that changes no graph), accumulated
\* scalar plus value of the frontier, summed over d and the split Decomposers,
\* is the value of the seed in every state, so an empty frontier leaves the
\* value of the seed in the accumulator.
C3_ValueInvariant ==
    HookKeepsT =>
        /\ ScalarAdd(Pending(d), PendingAll(ds)) = Value(SeedGraph)
        /\ (Len(d.stack) = 0 /\ ds = <<>>) => d.scalar = Value(SeedGraph)

C3_Witness ==
    /\ pc = "par_map" /\ Len(ds) = 4 /\ tcount(SeedGraph) = 5
    /\ \E i, j \in 1..Len(ds) :
          /\ ds[i].scalar # ScalarZero /\ Len(ds[i].stack) = 1
          /\ Len(ds[j].stack) = 2
    /\ HookKeepsT

(***************************************************************************)
(* Properties of split and merge, stated of the Decomposer d that the      *)
(* caller holds between two calls.                                         *)
(***************************************************************************)
Held == pc = "idle"

\* C4: merge(split(d)) has the scalar and the term count of d, and the same
\* multisets of frontier graphs and of archived graphs.
C4_RoundTrip ==
    Held =>
        LET m == merge(split(d))
        IN  /\ m.scalar = d.scalar
            /\ m.nterms = d.nterms
            /\ BagOfSeq(Graphs(m.stack)) = BagOfSeq(Graphs(d.stack))
            /\ BagOfSeq(m.done) = BagOfSeq(d.done)

C4_Witness ==
    /\ Held /\ last.op = "merge"
    /\ Len(d.stack) >= 3 /\ d.nterms > 0 /\ Len(d.done) > 0
    /\ Graphs(d.stack) # Graphs(merge(split(d)).stack)

\* C9 (as claimed): split of a Decomposer with N frontier entries returns N
\* Decomposers with one frontier entry each, for every N >= 0.
C9_SplitCount ==
    Held =>
        /\ Len(split(d)) = Len(d.stack)
        /\ \A i \in 1..Len(split(d)) : Len(split(d)[i].stack) = 1

\* C9 (amended): so it is for N >= 1; for N = 0 split returns one Decomposer,
\* which has an empty frontier.
C9_SplitCountNonEmpty ==
    Held =>
        /\ Len(d.stack) >= 1 =>
              /\ Len(split(d)) = Len(d.stack)
              /\ \A i \in 1..Len(split(d)) : Len(split(d)[i].stack) = 1
        /\ Len(d.stack) = 0 =>
              /\ Len(split(d)) = 1
              /\ Len(split(d)[1].stack) = 0

C9_Witness ==
    /\ pc = "split" /\ Len(ds) = 3
    /\ \A i \in 1..3 : Len(ds[i].stack) = 1

\* C17 (as claimed): every entry (depth, graph) of d is, with its depth, the
\* entry of the Decomposer split makes for it, and merge(split(d)) has the
\* multiset of (depth, graph) entries of d.  It fails: split passes only the
\* graph to Decomposer::new, which enters it at depth 0.
C17_DepthPreserved ==
    Held =>
        /\ \A i \in 1..Len(d.stack) : split(d)[i].stack = <<d.stack[i]>>
        /\ BagOfSeq(merge(split(d)).stack) = BagOfSeq(d.stack)

\* sums over a list of Decomposers
RECURSIVE SumScalars(_)
SumScalars(list) ==
    IF list = <<>> THEN ScalarZero
    ELSE ScalarAdd(Head(list).scalar, SumScalars(Tail(list)))

RECURSIVE SumTerms(_)
SumTerms(list) ==
    IF list = <<>> THEN 0 ELSE Head(list).nterms + SumTerms(Tail(list))

RECURSIVE CatDone(_)
CatDone(list) ==
    IF list = <<>> THEN <<>> ELSE Head(list).done \o CatDone(Tail(list))

\* C10: the last Decomposer of split(d) has the scalar, term count and archive
\* of d, the others have scalar zero, term count 0 and an empty archive, all
\* have the three flags of d; so the sums over the list are those of d.
C10_SplitAccumulator ==
    Held =>
        LET r == split(d)
            n == Len(r)
        IN  /\ r[n].scalar = d.scalar
            /\ r[n].nterms = d.nterms
            /\ r[n].done = d.done
            /\ \A i \in 1..(n - 1) :
                  /\ r[i].scalar = ScalarZero
                  /\ r[i].nterms = 0
                  /\ r[i].done = <<>>
            /\ \A i \in 1..n :
                  /\ r[i].simp_func = d.simp_func
                  /\ r[i].random_t = d.random_t
                  /\ r[i].save = d.save
            /\ SumScalars(r) = d.scalar
            /\ SumTerms(r) = d.nterms
            /\ CatDone(r) = d.done

C10_Witness ==
    /\ pc = "split" /\ Len(ds) >= 2
    /\ ds[Len(ds)].nterms > 0 /\ Len(ds[Len(ds)].done) > 0
    /\ ds[1].nterms = 0 /\ ds[1].done = <<>>
    /\ ds[1].save /\ ds[1].random_t /\ ds[1].simp_func = "FullSimp"

(***************************************************************************)
(* Properties of merge, stated of the list ds of Decomposers that the      *)
(* workers of decomp_parallel hold: every unit has its own scalar, term    *)
(* count, frontier and archive.                                            *)
(***************************************************************************)
\* the permutations of 1..n
Perms(n) == {p \in [1..n -> 1..n] : \A i, j \in 1..n : p[i] = p[j] => i = j}

\* the list in the order p
Permuted(list, p) == [i \in 1..Len(list) |-> list[p[i]]]

\* the frontiers of a list of Decomposers, one after the other
RECURSIVE CatStack(_)
CatStack(list) ==
    IF list = <<>> THEN <<>> ELSE Head(list).stack \o CatStack(Tail(list))

\* merge of the list cut in two after element k, each part merged first
MergeGrouped(list, k) ==
    merge(<<merge(SubSeq(list, 1, k)), merge(SubSeq(list, k + 1, Len(list)))>>)

\* C11: merge(ds) has the sum of the scalars and of the term counts of ds and,
\* as multisets, the frontier and archive entries of ds; for lists of up to
\* MaxMergeLen Decomposers every permutation of the list, merged at once or in
\* two groups, gives the same scalar and term count; merge of the empty list is
\* the empty Decomposer.
C11_MergeSums ==
    /\ merge(<<>>) = empty
    /\ pc = "par_map" =>
          /\ merge(ds).scalar = SumScalars(ds)
          /\ merge(ds).nterms = SumTerms(ds)
          /\ BagOfSeq(merge(ds).stack) = BagOfSeq(CatStack(ds))
          /\ BagOfSeq(merge(ds).done) = BagOfSeq(CatDone(ds))
          /\ Len(ds) <= MaxMergeLen =>
                \A p \in Perms(Len(ds)) :
                    /\ merge(Permuted(ds, p)).scalar = merge(ds).scalar
                    /\ merge(Permuted(ds, p)).nterms = merge(ds).nterms
                    /\ \A k \in 0..Len(ds) :
                          /\ MergeGrouped(Permuted(ds, p), k).scalar = merge(ds).scalar
                          /\ MergeGrouped(Permuted(ds, p), k).nterms = merge(ds).nterms

Reverse(q) == [i \in 1..Len(q) |-> q[Len(q) + 1 - i]]

\* C18 (as claimed): the frontier and the archive of merge(ds) are those of the
\* elements of ds one after the other in list order, and merge(split(d)) has
\* the graphs of d's frontier in d's order.
C18_MergeInOrder ==
    /\ pc = "par_map" =>
          /\ merge(ds).stack = CatStack(ds)
          /\ merge(ds).done = CatDone(ds)
    /\ pc = "par_split" =>
          Graphs(merge(split(d)).stack) = Graphs(d.stack)

\* C18 (amended): they are those of the elements of ds in reverse list order,
\* the last element first, each element's own entries in their order; and
\* merge(split(d)) has the graphs of d's frontier in reverse order.
C18_MergeReverseOrder ==
    /\ pc = "par_map" =>
          /\ merge(ds).stack = CatStack(Reverse(ds))
          /\ merge(ds).done = CatDone(Reverse(ds))
    /\ pc = "par_split" =>
          Graphs(merge(split(d)).stack) = Reverse(Graphs(d.stack))

C18_Witness ==
    /\ pc = "par_map" /\ Len(ds) = 4
    /\ \E i, j \in 1..4 : i # j /\ Len(ds[i].done) > 0 /\ Len(ds[j].done) > 0
    /\ \E i, j \in 1..4 : i # j /\ Len(ds[i].stack) > 0 /\ Len(ds[j].stack) > 0
    /\ \E i \in 1..4 : Len(ds[i].stack) = 2
    /\ \E i \in 1..4 : Len(ds[i].done) = 2
    /\ merge(ds).done # CatDone(ds)
    /\ merge(ds).stack # CatStack(ds)

C11_Witness ==
    /\ pc = "par_map" /\ Len(ds) = 4
    /\ \A i \in 1..4 : ds[i].nterms > 0 /\ ds[i].scalar # ScalarZero
    /\ \E i, j \in 1..4 : ds[i].scalar # ds[j].scalar /\ ds[i].nterms # ds[j].nterms
    /\ \E i \in 1..4 : Len(ds[i].stack) > 0 /\ Len(ds[i].done) > 0

(***************************************************************************)
(* Tensor evaluation (crate::tensor, to_tensor4).  The tensor of a graph   *)
(* has one index per boundary vertex; its entry at the output bits o is    *)
(* the attached scalar times the sum, over the bits x of the Z-vertices,   *)
(* of the product of w^(phase(v) * x[v]) for every Z-vertex, of            *)
(* [bits equal] for every N edge and of (-1)^(product of the bits) /       *)
(* sqrt(2) for every H edge.                                               *)
(***************************************************************************)
Boundaries(g) == {v \in vertices(g) : g.ty[v] = "B"}

ZVertices(g) == {v \in vertices(g) : g.ty[v] = "Z"}

\* the pairs <<v, b>> of a Z-vertex v joined by an N edge to a boundary b: the
\* bit of v is the output bit of b
OutputPairs(g) ==
    {<<p[1], p[2]>> : p \in {q \in ZVertices(g) \X Boundaries(g) :
                                Edge(q[1], q[2], "N") \in g.ed}}

FreeVertices(g) ==
    {v : v \in {u \in ZVertices(g) : \A p \in OutputPairs(g) : p[1] # u}}

\* 1/sqrt(2)^n; 1/sqrt(2) is (w - w^3)/2
RECURSIVE InvSqrt2Pow(_)
InvSqrt2Pow(n) ==
    IF n = 0 THEN ScalarOne
    ELSE ScalarMul(<<-1, 0, 1, 0, -1>>, InvSqrt2Pow(n - 1))

\* the entry at output bits o, given OutputPairs(g) and FreeVertices(g)
TensorEntry(g, o, pairs, free) ==
    LET bit(f, v) == IF g.ty[v] = "B" THEN o[v]
                     ELSE IF v \in free THEN f[v]
                     ELSE o[(CHOOSE p \in pairs : p[1] = v)[2]]
        expo(f) ==
            IF \E e \in g.ed : e[3] = "N" /\ bit(f, e[1]) # bit(f, e[2]) THEN 8
            ELSE LET ones == {v : v \in {u \in ZVertices(g) : bit(f, u) = 1}}
                     byPhase(j) == Cardinality({v \in ones : g.ph[v] = j})
                     had == Cardinality({e \in g.ed :
                                e[3] = "H" /\ e[1] \in ones /\ e[2] \in ones})
                 IN  (byPhase(1) + 2 * byPhase(2) + 3 * byPhase(3) + 4 * byPhase(4)
                      + 5 * byPhase(5) + 6 * byPhase(6) + 7 * byPhase(7) + 4 * had) % 8
        ks == {<<f, expo(f)>> : f \in [free -> {0, 1}]}
        c(j) == Cardinality({k \in ks : k[2] = j})
        nH == Cardinality({e \in g.ed : e[3] = "H"})
        total == ScalarReduce(<<0, c(0) - c(4), c(1) - c(5), c(2) - c(6), c(3) - c(7)>>)
    IN  ScalarMul(ScalarMul(g.sc, InvSqrt2Pow(nH)), total)

to_tensor(g) ==
    LET pairs == OutputPairs(g)
        free == FreeVertices(g)
    IN  [o \in [Boundaries(g) -> {0, 1}] |-> TensorEntry(g, o, pairs, free)]

\* the sum of the tensors of a list of graphs over the boundary set bs
RECURSIVE TensorSum(_, _)
TensorSum(gs, bs) ==
    IF gs = <<>> THEN [o \in [bs -> {0, 1}] |-> ScalarZero]
    ELSE LET t == to_tensor(Head(gs))
             r == TensorSum(Tail(gs), bs)
         IN  [o \in [bs -> {0, 1}] |-> ScalarAdd(t[o], r[o])]

(***************************************************************************)
(* Tensor runs: seeds with 1 to MaxMixedT T-vertices of any odd phases,    *)
(* and the six-vertex seed of tests::bss, reduced by decomp_top with       *)
(* archiving on and simplification off.                                    *)
(***************************************************************************)
RECURSIVE MixedGraph(_)
MixedGraph(ks) ==
    IF ks = <<>> THEN EmptyGraph
    ELSE LET g == MixedGraph(SubSeq(ks, 1, Len(ks) - 1))
             v == num_vertices(g) + 1
             g1 == add_vertex_with_phase(g, "Z", ks[Len(ks)])
             g2 == add_vertex(g1, "B")
         IN  add_edge_with_type(g2, v, v + 1, "N")

TensorSeeds ==
    {MixedGraph(ks) : ks \in UNION {[1..n -> {1, 3, 5, 7}] : n \in 1..MaxMixedT}}
    \cup {TestGraph(6, k) : k \in {1, 7}}

InitTensor ==
    /\ \E g \in TensorSeeds, rnd \in BOOLEAN :
          /\ rnd => tcount(g) <= MaxMixedT
          /\ d = Seeded(g, "NoSimp", rnd, TRUE)
    /\ seed = d
    /\ hook = 0
    /\ ds = <<>>
    /\ pc = "idle"
    /\ arg = 0
    /\ last = NoCall

NextTensor == Len(d.stack) > 0 /\ decomp_top

SpecTensor == InitTensor /\ [][NextTensor]_vars

\* C2: the tensors of the frontier graphs and of the archived terminal graphs
\* sum to the tensor of the seed, after every decomp_top; so the children of the
\* first step sum to the tensor of the seed, and so do the terminal graphs once
\* the frontier is empty.
C2_TensorSum ==
    TensorSum(Graphs(d.stack) \o d.done, Boundaries(SeedGraph)) = to_tensor(SeedGraph)

C2_Witness ==
    /\ tcount(SeedGraph) = 6
    /\ last.op = "decomp_top" /\ last.fresh /\ Len(d.stack) = 7
    /\ to_tensor(SeedGraph)[[b \in Boundaries(SeedGraph) |-> 1]] # ScalarZero

(***************************************************************************)
(* Phase runs: seeds with 1 to MaxPhaseT T-vertices of any odd phases,     *)
(* reduced by decomp_top with simplification off.                          *)
(***************************************************************************)
InitPhase ==
    /\ \E n \in 1..MaxPhaseT, rnd \in BOOLEAN :
          /\ rnd => n <= MaxAllRandT
          /\ \E ks \in [1..n -> {1, 3, 5, 7}] :
                d = Seeded(MixedGraph(ks), "NoSimp", rnd, FALSE)
    /\ seed = d
    /\ hook = 0
    /\ ds = <<>>
    /\ pc = "idle"
    /\ arg = 0
    /\ last = NoCall

NextPhase == decomp_top

SpecPhase == InitPhase /\ [][NextPhase]_vars

\* the elements of a sequence
Range(q) == {q[i] : i \in DOMAIN q}

\* C13: with simplification off, a step that pops g and rewrites it on the
\* vertices vs (6, 2 or 1 of them) pushes children with Len(vs) T-vertices fewer
\* than g: in each child every vertex of vs has its phase changed by an odd
\* multiple of 1/4, every other vertex of g keeps its phase, and every added
\* vertex has a phase that is no odd multiple of 1/4.
C13_StrictDecrease ==
    [][(d' # d /\ d.simp_func = "NoSimp") =>
        LET g == d.stack[PoppedIndex][2]
        IN  \E ts \in SelectTs(d, g) :
                LET vs == UsedOf(ts)
                IN  /\ Len(vs) \in {0, 1, 2, 6}
                    /\ \A i \in Len(d.stack)..Len(d'.stack) :
                          LET c == d'.stack[i][2]
                          IN  /\ tcount(c) = tcount(g) - Len(vs)
                              /\ tcount(c) < tcount(g)
                              /\ \A v \in vertices(g) :
                                    IF v \in Range(vs)
                                    THEN (c.ph[v] - g.ph[v]) % 2 = 1 /\ ~IsT(c, v)
                                    ELSE c.ph[v] = g.ph[v]
                              /\ \A v \in vertices(c) \ vertices(g) : ~IsT(c, v)]_vars

C13_Witness ==
    /\ pc = "idle" /\ last.op = "decomp_top" /\ last.fresh
    /\ tcount(SeedGraph) = 6 /\ Len(d.stack) = 7
    /\ {SeedGraph.ph[v] : v \in ZVertices(SeedGraph)} = {1, 3, 5, 7}
    /\ \A i \in 1..7 : tcount(d.stack[i][2]) = 0

\* the graph on top of the frontier has six T-vertices or more
TopHasSix == Len(d.stack) > 0 /\ tcount(d.stack[Len(d.stack)][2]) >= 6

TopGraph == d.stack[Len(d.stack)][2]

\* C16 (as claimed): replace_phi2(g, [v0,v1,v2,v3,v4,v5]) is
\* replace_phi1(g, [v0,v1,v3,v2,v4,v5]).  It is not: already the phases of v2
\* and v5, which are vertices of g, differ between the two graphs.
C16_Phi2IsSwap ==
    TopHasSix =>
        \A ts \in SelectTs(d, TopGraph) :
            replace_phi2(TopGraph, ts) =
                replace_phi1(TopGraph, <<ts[1], ts[2], ts[4], ts[3], ts[5], ts[6]>>)

\* C16 (amended): replace_phi2(g, [v0,v1,v2,v3,v4,v5]) is
\* replace_phi1(g, [v0,v1,v3,v4,v5,v2]): v2 is moved to the last position, which
\* is the vertex that receives 3/4 and the edges of all five ancillas.
C16_Phi2IsRotation ==
    TopHasSix =>
        \A ts \in SelectTs(d, TopGraph) :
            LET c == replace_phi2(TopGraph, ts)
                n0 == num_vertices(TopGraph)
            IN  /\ c = replace_phi1(TopGraph, <<ts[1], ts[2], ts[4], ts[5], ts[6], ts[3]>>)
                /\ c.sc = ScalarMul(TopGraph.sc, Exact(3, <<1, 0, 1, 0>>))
                /\ c.ph[ts[3]] = (TopGraph.ph[ts[3]] + 3) % 8
                /\ \A i \in {1, 2, 4, 5, 6} : c.ph[ts[i]] = (TopGraph.ph[ts[i]] + 7) % 8
                /\ \A w \in (n0 + 1)..(n0 + 5) : Edge(w, ts[3], "H") \in c.ed

C16_Witness ==
    /\ pc = "idle" /\ last.op = "decomp_top" /\ last.fresh
    /\ tcount(SeedGraph) = 6 /\ Len(d.stack) = 7
    /\ SeedGraph.ph[5] = 1 /\ SeedGraph.ph[11] = 5
    /\ d.stack[7][2] = replace_phi1(SeedGraph, <<1, 3, 7, 9, 11, 5>>)
    /\ d.stack[7][2] # replace_phi1(SeedGraph, <<1, 3, 7, 5, 9, 11>>)

(***************************************************************************)
(* Runs with simplification off: a seeded Decomposer with up to MaxSumT    *)
(* T-vertices under either selection policy, or with the six of one full   *)
(* BSS step under the deterministic one, on which the caller calls         *)
(* decomp_top, decomp_until_depth, split and merge.                        *)
(***************************************************************************)
MaxSumT == 3

InitSum ==
    \E n \in 0..6, sv \in BOOLEAN, rnd \in BOOLEAN :
        /\ n <= MaxSumT \/ (n = 6 /\ ~rnd)
        /\ InitFrom([n |-> n, k |-> 1, sv |-> sv, rnd |-> rnd,
                     simp |-> "NoSimp", hook |-> 0])

NextSum ==
    \/ decomp_top
    \/ decomp_until_depth_call
    \/ decomp_until_depth_step
    \/ split_call
    \/ merge_call

SpecSum == InitSum /\ [][NextSum]_vars

RECURSIVE SumMaxTerms(_)
SumMaxTerms(list) ==
    IF list = <<>> THEN 0 ELSE max_terms(Head(list)) + SumMaxTerms(Tail(list))

\* the term count plus max_terms(), over d and the Decomposers of ds
TotalTerms == d.nterms + max_terms(d) + SumTerms(ds) + SumMaxTerms(ds)

\* C19: with simplification off, under either selection policy, the term count
\* plus max_terms(), summed over all Decomposers, is in every state what it
\* was for the seed: decomp_top, the iterations of decomp_until_depth, split
\* and merge leave it unchanged.
C19_SumInvariant ==
    /\ TotalTerms = max_terms(seed)
    /\ [][TotalTerms' = TotalTerms]_vars

\* the same case under the random selection
C19_RandomSplit ==
    /\ pc = "split" /\ seed.random_t /\ tcount(SeedGraph) = 3
    /\ Len(ds) = 2 /\ ds[2].nterms = 1 /\ SumMaxTerms(ds) = 3

C19_Witness ==
    /\ pc = "split" /\ ~seed.random_t /\ tcount(SeedGraph) = 6
    /\ Len(ds) = 5 /\ ds[5].nterms = 2
    /\ max_terms(seed) = 7 /\ SumMaxTerms(ds) = 5

(***************************************************************************)
(* Runs of decomp_top and decomp_until_depth: a seeded Decomposer on which *)
(* the caller makes any sequence of calls of the two, with any depth       *)
(* argument up to MaxApiDepth.                                             *)
(***************************************************************************)
NextUntil ==
    \/ decomp_top
    \/ decomp_until_depth_call_deep
    \/ decomp_until_depth_step

SpecUntil == InitApi /\ [][NextUntil]_vars

\* C20: when decomp_until_depth(D) returns, after any sequence of decomp_top
\* and decomp_until_depth calls, no frontier entry has a depth below D.
C20_NoShallowEntry ==
    (pc = "idle" /\ last.op = "decomp_until_depth") =>
        \A i \in 1..Len(d.stack) : d.stack[i][1] >= last.arg

====
